---- MODULE Spec2Model ----
(***************************************************************************)
(* Model of the SDF importer of the RobotDesigner plugin                   *)
(* (robot_designer_plugin/export/sdf/sdf_import.py): Importer.import_file  *)
(* walks every kinematic chain with the recursive Importer.parse, which    *)
(* creates one segment (bone) per node, sets its kinematic properties,     *)
(* attaches the inertial record and the visual/collision geometries and    *)
(* recurses into the children.                                             *)
(*                                                                         *)
(* Numbers.  Lengths are integers in tenths of the decimal precision that  *)
(* `rounded` keeps, angles are integers in quarter turns (pi/2), so that   *)
(* rotation matrices are exact; axis components are integers in halves     *)
(* (2 is 1.0, 1 is 0.5).  Joint limits of revolute joints are integers in  *)
(* units of pi/4 rad.  Names are sequences of string tokens, "" is <<>>.   *)
(***************************************************************************)
EXTENDS Integers, Sequences, FiniteSets, TLC

\* ------------------------------------------------------------------ bounds
\* largest number of links (nodes) of a description
MaxNodes == 3
\* largest number of visual instances of a link in the geometry inputs
MaxVisual == 2
\* largest number of collision instances of a link in the geometry inputs
MaxCollision == 1
\* largest magnitude of a joint limit in the joint inputs
MaxLimit == 2
\* largest half-extent of a box in the box inputs
MaxSize == 3

\* ------------------------------------------------------------ small helpers
Range(s) == {s[i] : i \in 1..Len(s)}

Last(s) == s[Len(s)]

RECURSIVE SeqsUpTo(_, _)
\* all sequences over S of length at most k
SeqsUpTo(S, k) ==
    IF k = 0 THEN {<<>>}
    ELSE LET shorter == SeqsUpTo(S, k - 1)
         IN  shorter \cup {Append(s, x) : s \in {t \in shorter : Len(t) = k - 1}, x \in S}

RECURSIVE RemoveSpaces(_)
\* str.replace(" ", "") on a token sequence
RemoveSpaces(s) ==
    IF s = <<>> THEN <<>>
    ELSE IF Head(s) = " " THEN RemoveSpaces(Tail(s))
    ELSE <<Head(s)>> \o RemoveSpaces(Tail(s))

Digits == <<"0", "1", "2", "3", "4", "5", "6", "7", "8", "9">>

RECURSIVE FormatInt(_)
\* "%d" % n for n >= 0, as a sequence of digit tokens
FormatInt(n) ==
    IF n < 10 THEN <<Digits[n + 1]>>
    ELSE FormatInt(n \div 10) \o <<Digits[(n % 10) + 1]>>

\* ------------------------------------------------------- poses and matrices
ZeroPose == <<0, 0, 0, 0, 0, 0>>

\* cosine and sine of an angle given in quarter turns
Cos4(a) == CASE a % 4 = 0 -> 1 [] a % 4 = 1 -> 0 [] a % 4 = 2 -> -1 [] OTHER -> 0

Sin4(a) == CASE a % 4 = 0 -> 0 [] a % 4 = 1 -> 1 [] a % 4 = 2 -> 0 [] OTHER -> -1

\* atan2(y, x) in quarter turns for axis-aligned (y, x); atan2(0, 0) = 0
Atan2(y, x) ==
    CASE y = 0 /\ x >= 0 -> 0
      [] y > 0 /\ x = 0 -> 1
      [] y = 0 /\ x < 0 -> 2
      [] y < 0 /\ x = 0 -> -1
      [] OTHER -> 0

Abs(x) == IF x < 0 THEN -x ELSE x

Identity4 == <<<<1, 0, 0, 0>>, <<0, 1, 0, 0>>, <<0, 0, 1, 0>>, <<0, 0, 0, 1>>>>

MatMul(A, B) ==
    [i \in 1..4 |-> [j \in 1..4 |->
        A[i][1] * B[1][j] + A[i][2] * B[2][j] + A[i][3] * B[3][j] + A[i][4] * B[4][j]]]

\* Matrix.Translation(Vector(xyz))
Translation(xyz) ==
    <<<<1, 0, 0, xyz[1]>>, <<0, 1, 0, xyz[2]>>, <<0, 0, 1, xyz[3]>>, <<0, 0, 0, 1>>>>

\* Euler(rpy, 'XYZ').to_matrix().to_4x4(): Rz(yaw) * Ry(pitch) * Rx(roll)
EulerXYZ(rpy) ==
    LET cx == Cos4(rpy[1])  sx == Sin4(rpy[1])
        cy == Cos4(rpy[2])  sy == Sin4(rpy[2])
        cz == Cos4(rpy[3])  sz == Sin4(rpy[3])
    IN  <<<<cz * cy, cz * sy * sx - sz * cx, cz * sy * cx + sz * sx, 0>>,
          <<sz * cy, sz * sy * sx + cz * cx, sz * sy * cx - cz * sx, 0>>,
          <<-sy, cy * sx, cy * cx, 0>>,
          <<0, 0, 0, 1>>>>

\* round() to the kept decimal precision: lengths are in tenths of it,
\* ties go to the even neighbour as Python's round does
RoundLen(x) ==
    LET q == x \div 10
        r == x % 10
    IN  IF r < 5 THEN 10 * q
        ELSE IF r > 5 THEN 10 * (q + 1)
        ELSE IF q % 2 = 0 THEN 10 * q ELSE 10 * (q + 1)

\* helpers.rounded on a pose: every length is rounded, a quarter-turn angle
\* stays the quarter turn it is
rounded(pose) == [i \in 1..6 |-> IF i <= 3 THEN RoundLen(pose[i]) ELSE pose[i]]

\* helpers.pose_float2homogeneous: translate o rotateXYZ(roll, pitch, yaw)
pose_float2homogeneous(pose) ==
    MatMul(Translation(SubSeq(pose, 1, 3)), EulerXYZ(SubSeq(pose, 4, 6)))

\* helpers.inverse_matrix of a rigid transform: (R^T, -R^T t)
inverse_matrix(M) ==
    LET Rt(i, j) == M[j][i]
        t(i) == -(Rt(i, 1) * M[1][4] + Rt(i, 2) * M[2][4] + Rt(i, 3) * M[3][4])
    IN  <<<<Rt(1, 1), Rt(1, 2), Rt(1, 3), t(1)>>,
          <<Rt(2, 1), Rt(2, 2), Rt(2, 3), t(2)>>,
          <<Rt(3, 1), Rt(3, 2), Rt(3, 3), t(3)>>,
          <<0, 0, 0, 1>>>>

\* Matrix.to_euler('XYZ'): both candidate solutions, the one with the smaller
\* sum of absolute angles is returned
to_euler(M) ==
    LET cy == IF M[1][1] # 0 \/ M[2][1] # 0 THEN 1 ELSE 0
        e1 == IF cy > 0
              THEN <<Atan2(M[3][2], M[3][3]), Atan2(-M[3][1], cy), Atan2(M[2][1], M[1][1])>>
              ELSE <<Atan2(-M[2][3], M[2][2]), Atan2(-M[3][1], cy), 0>>
        e2 == IF cy > 0
              THEN <<Atan2(-M[3][2], -M[3][3]), Atan2(-M[3][1], -cy), Atan2(-M[2][1], -M[1][1])>>
              ELSE <<Atan2(-M[2][3], M[2][2]), Atan2(-M[3][1], cy), 0>>
        sum(e) == Abs(e[1]) + Abs(e[2]) + Abs(e[3])
    IN  IF sum(e1) > sum(e2) THEN e2 ELSE e1

\* helpers.homo2origin: translation and Euler XYZ angles of a transform
homo2origin(M) == [xyz |-> <<M[1][4], M[2][4], M[3][4]>>, euler |-> to_euler(M)]

\* helpers.pose2origin(pose_a, pose_b): pose_b expressed in the frame pose_a
pose2origin(pose_a, pose_b) == homo2origin(MatMul(inverse_matrix(pose_a), pose_b))

\* ------------------------------------------------------------------ inputs
\* the document as sdf_tree.SDFTree.parse returns it: nodes 1..n, parentOf[n]
\* is the parent node (0 for the root of a kinematic chain), children and
\* chains are ordered by declaration (node number)
JointName(n) == <<"joint", Digits[n + 1]>>

LinkName(n) == IF n % 2 = 1 THEN <<"link", " ", Digits[n + 1]>> ELSE <<"link", Digits[n + 1]>>

NoGeometry == [box |-> <<>>, cylinder |-> <<>>, sphere |-> <<>>, mesh |-> <<>>]

Box(size) == [NoGeometry EXCEPT !.box = <<[size |-> size]>>]

Cylinder == [NoGeometry EXCEPT !.cylinder = <<[radius |-> 10, length |-> 20]>>]

Sphere == [NoGeometry EXCEPT !.sphere = <<[radius |-> 10]>>]

Mesh(scheme, ext) == [NoGeometry EXCEPT !.mesh = <<[uri |-> <<scheme, "meshes/part", ext>>, scale |-> <<>>]>>]

\* a visual or collision element: geometry is a list of zero or one element
Instance(geometry, pose) == [geometry |-> geometry, pose |-> pose]

PoseA == <<14, 0, 26, 1, 0, 0>>

PoseB == <<0, -37, 10, 0, 1, 2>>

LimitA == [lower |-> -1, upper |-> 2, velocity |-> 3]

DiagInertia == [mass |-> 5, ixx |-> 1, iyy |-> 2, izz |-> 3, ixy |-> 0, ixz |-> 0, iyz |-> 0]

MkJoint(type, axis, limit, dynamics) ==
    [type |-> type, axis |-> axis, limit |-> limit, dynamics |-> dynamics]

MkLink(pose, inertial, visual, collision) ==
    [pose |-> pose, inertial |-> inertial, visual |-> visual, collision |-> collision]

\* node profiles of the descriptions with several links
TreeProfiles ==
    { [joint |-> MkJoint("revolute", <<2, 0, 0>>, <<LimitA>>, TRUE),
       link |-> MkLink(<<>>, <<>>, <<Instance(<<Box(<<2, 4, 6>>)>>, <<>>)>>, <<>>)],
      [joint |-> MkJoint("prismatic", <<0, -2, 0>>, <<LimitA>>, FALSE),
       link |-> MkLink(<<PoseA>>, <<[DiagInertia EXCEPT !.ixy = 1]>>, <<>>,
                       <<Instance(<<Cylinder>>, <<PoseB>>)>>)],
      [joint |-> MkJoint("fixed", <<0, 0, 2>>, <<>>, FALSE),
       link |-> MkLink(<<PoseB>>, <<DiagInertia>>,
                       <<Instance(<<Mesh("model://", ".dae")>>, <<PoseA>>)>>, <<>>)],
      [joint |-> MkJoint("revolute", <<1, 1, 0>>, <<>>, TRUE),
       link |-> MkLink(<<PoseA>>, <<>>, <<Instance(<<Mesh("package://", ".obj")>>, <<>>)>>, <<>>)],
      [joint |-> MkJoint("prismatic", <<-2, 0, 0>>, <<LimitA>>, TRUE),
       link |-> MkLink(<<>>, <<>>, <<Instance(<<Mesh("http://", ".stl")>>, <<>>)>>, <<>>)] }

\* geometry instances of the descriptions with one link
GeometryInputs ==
    { Instance(<<Box(<<2, 4, 6>>)>>, <<>>),
      Instance(<<Sphere>>, <<PoseA>>),
      Instance(<<Mesh("file:///", ".stl")>>, <<>>),
      Instance(<<Mesh("model://", ".dae")>>, <<>>),
      Instance(<<Mesh("package://", ".obj")>>, <<>>),
      Instance(<<Mesh("http://", ".stl")>>, <<>>),
      Instance(<<NoGeometry>>, <<>>),
      Instance(<<>>, <<>>) }

\* parentOf for n nodes: a node's parent is declared before it
Forests(n) == {p \in [1..n -> 0..(n - 1)] : \A k \in 1..n : p[k] < k}

MkNode(n, prof) ==
    [joint |-> [name |-> JointName(n), type |-> prof.joint.type, axis |-> prof.joint.axis,
                limit |-> prof.joint.limit, dynamics |-> prof.joint.dynamics],
     link |-> [name |-> LinkName(n), pose |-> prof.link.pose, inertial |-> prof.link.inertial,
               visual |-> prof.link.visual, collision |-> prof.link.collision]]

\* ------------------------------------------------------------------- state
VARIABLES
    parentOf,        \* the parsed document: parent node of every node
    nodes,           \* the parsed document: joint and link of every node
    pc,              \* position of import_file
    chain,           \* index of the kinematic chain import_file is at
    stack,           \* call stack of parse, innermost frame last
    root_name,       \* value the last root call of parse returned
    bones,           \* segments of the armature, in creation order
    active_bone,     \* name of bpy.context.active_bone, <<>> if none
    objects,         \* scene objects, in creation order
    selected,        \* bpy.context.selected_objects (indices into objects)
    active_object,   \* bpy.context.scene.objects.active (index, 0 if none)
    reports,         \* operator.report messages
    errors,          \* logger.error messages
    trace,           \* history of the operations carried out
    calls,           \* arguments of every call of parse, in call order
    exc,             \* exception that escaped, <<>> if none
    operator,        \* the import operator whose execute runs, <<>> before it
    file_path,       \* file_path of the Importer, <<>> if none
    target,          \* the temporary directory: "none", "exists" or "removed"
    result           \* value execute returned, <<>> while it has not returned

vars == <<parentOf, nodes, pc, chain, stack, root_name, bones, active_bone, objects,
          selected, active_object, reports, errors, trace, calls, exc,
          operator, file_path, target, result>>

NumNodes == Len(nodes)

\* node.children, in declared order
children(n) == LET S == {k \in 1..NumNodes : parentOf[k] = n}
               IN  [i \in 1..Cardinality(S) |->
                       CHOOSE k \in S : Cardinality({j \in S : j < k}) = i - 1]

\* kinematic_chains: the root nodes, in declared order
kinematic_chains == children(0)

\* ------------------------------------------------------------- host scene
\* the part of the host editor's scene the importer reads and writes
Scene == [objects |-> objects, selected |-> selected, active_object |-> active_object,
          bones |-> bones, active_bone |-> active_bone, reports |-> reports,
          errors |-> errors, trace |-> trace, exc |-> exc]

Event(op, node, model_type, nr, obj) ==
    [op |-> op, node |-> node, model_type |-> model_type, nr |-> nr, obj |-> obj]

\* the name the host gives when `base` is asked for and `taken` are in use
UniqueName(base, taken) ==
    IF base \notin taken THEN base
    ELSE LET k == CHOOSE k \in 1..9 :
                      /\ (base \o <<".", "0", "0", Digits[k + 1]>>) \notin taken
                      /\ \A j \in 1..(k - 1) : (base \o <<".", "0", "0", Digits[j + 1]>>) \in taken
         IN  base \o <<".", "0", "0", Digits[k + 1]>>

ObjectNames(objs) == {objs[i].name : i \in 1..Len(objs)}

\* a scene object as created: not attached, not tagged; node/model_type/nr
\* record the geometry instance whose resolver created it (0/-1 if none)
NewObject(name, type, node, model_type, nr) ==
    [name |-> name, type |-> type, tag |-> <<>>, bone |-> <<>>, fileName |-> <<>>,
     node |-> node, model_type |-> model_type, nr |-> nr,
     verts |-> <<>>, faces |-> <<>>, mass |-> <<>>, inertiaTensor |-> <<>>,
     modelMeta |-> <<>>]

\* a segment as CreateNewSegment leaves it: no property assigned yet
NewBone(name, parent, node) ==
    [name |-> name, parent |-> parent, node |-> node,
     axis |-> <<>>, axis_revert |-> <<>>, jointMode |-> <<>>, Euler |-> <<>>,
     theta_min |-> <<>>, theta_max |-> <<>>, d_min |-> <<>>, d_max |-> <<>>,
     maxVelocity |-> <<>>]

BoneIndex(bs, name) == CHOOSE i \in 1..Len(bs) : bs[i].name = name

ObjectIndex(objs, name) == CHOOSE i \in 1..Len(objs) : objs[i].name = name

\* operators.model.CreateNewModel: a new armature, active and selected
CreateNewModel(sc, model_name) ==
    LET name == UniqueName(model_name, ObjectNames(sc.objects))
        objs == Append(sc.objects, NewObject(name, "ARMATURE", 0, -1, -1))
    IN  [sc EXCEPT !.objects = objs, !.selected = {Len(objs)}, !.active_object = Len(objs)]

\* operators.model.SelectModel: the armature alone is selected and active
SelectModel(sc, model_name) ==
    LET i == ObjectIndex(sc.objects, model_name)
    IN  [sc EXCEPT !.selected = {i}, !.active_object = i]

\* a selection that leaves the active bone where it is
SelectSegment_kept(sc, segment_name) == sc

\* operators.segments.SelectSegment: the named segment becomes the active
\* bone, "" leaves no segment selected
SelectSegment(sc, segment_name) == [sc EXCEPT !.active_bone = segment_name]

\* operators.segments.CreateNewSegment: a new segment, child of the selected
\* segment, becomes the active bone
CreateNewSegment(sc, segment_name, node) ==
    LET name == UniqueName(segment_name, {sc.bones[i].name : i \in 1..Len(sc.bones)})
    IN  [sc EXCEPT !.bones = Append(sc.bones, NewBone(name, sc.active_bone, node)),
                   !.active_bone = name,
                   !.trace = Append(sc.trace, Event("bone", node, -1, -1, 0))]

\* operators.dynamics.CreatePhysical: a new physics frame named frameName
CreatePhysical(sc, frameName, node) ==
    LET name == UniqueName(frameName, ObjectNames(sc.objects))
    IN  [sc EXCEPT !.objects = Append(sc.objects, NewObject(name, "EMPTY", node, -1, -1))]

\* operators.dynamics.SelectPhysical: the frame is selected beside the model
SelectPhysical(sc, frameName) ==
    [sc EXCEPT !.selected = {ObjectIndex(sc.objects, frameName), sc.active_object}]

\* operators.dynamics.AssignPhysical: the selected frame is attached to the
\* active bone
AssignPhysical(sc) ==
    [sc EXCEPT !.objects = [i \in 1..Len(sc.objects) |->
        IF i \in sc.selected /\ sc.objects[i].type = "EMPTY"
        THEN [sc.objects[i] EXCEPT !.bone = sc.active_bone]
        ELSE sc.objects[i]]]

\* operators.rigid_bodies.SelectGeometry: the mesh is selected beside the model
SelectGeometry(sc, geometry_name) ==
    [sc EXCEPT !.selected = {ObjectIndex(sc.objects, geometry_name), sc.active_object}]

\* operators.rigid_bodies.AssignGeometry: the selected mesh is attached to the
\* active bone
AssignGeometry(sc) ==
    [sc EXCEPT !.objects = [i \in 1..Len(sc.objects) |->
        IF i \in sc.selected /\ sc.objects[i].type = "MESH"
        THEN [sc.objects[i] EXCEPT !.bone = sc.active_bone]
        ELSE sc.objects[i]]]

\* bpy.ops.object.select_all(False): the positional argument is not the
\* action, so the default action TOGGLE runs: everything is deselected when
\* something is selected, and everything is selected otherwise
select_all(sc) ==
    [sc EXCEPT !.selected = IF sc.selected = {} THEN 1..Len(sc.objects) ELSE {}]

\* an object the host creates through an add/import operator: it becomes the
\* only selected object and the active one
AddObject(sc, name, node, model_type, nr) ==
    LET objs == Append(sc.objects, NewObject(UniqueName(name, ObjectNames(sc.objects)),
                                             "MESH", node, model_type, nr))
    IN  [sc EXCEPT !.objects = objs, !.selected = {Len(objs)}, !.active_object = Len(objs),
                   !.trace = Append(sc.trace, Event("create", node, model_type, nr, Len(objs)))]

\* ------------------------------------------------------ geometry resolvers
\* the transformation in the pose element of a visual/collision element
PoseTransform(model) ==
    IF model.pose = <<>>
    THEN MatMul(Translation(<<0, 0, 0>>), EulerXYZ(<<0, 0, 0>>))
    ELSE MatMul(Translation(SubSeq(model.pose[1], 1, 3)), EulerXYZ(SubSeq(model.pose[1], 4, 6)))

BoxFaces == <<<<0, 1, 2, 3>>, <<4, 7, 6, 5>>, <<0, 4, 5, 1>>, <<1, 5, 6, 2>>, <<2, 6, 7, 3>>, <<4, 0, 3, 7>>>>

UnitVerts == <<<<1, 1, -1>>, <<1, -1, -1>>, <<-1, -1, -1>>, <<-1, 1, -1>>,
               <<1, 1, 1>>, <<1, -1, 1>>, <<-1, -1, 1>>, <<-1, 1, 1>>>>

\* the vertices of the unit cube scaled by the full size per axis
BoxVerts_full(size) ==
    [i \in 1..8 |-> <<UnitVerts[i][1] * size[1], UnitVerts[i][2] * size[2],
                      UnitVerts[i][3] * size[3]>>]

\* the vertices import_box computes: the unit cube scaled by size/2 per axis
BoxVerts(size) ==
    LET width == size[1] \div 2
        depth == size[2] \div 2
        height == size[3] \div 2
    IN  [i \in 1..8 |-> <<UnitVerts[i][1] * width, UnitVerts[i][2] * depth, UnitVerts[i][3] * height>>]

\* Importer.import_box: a new mesh object with the cuboid's vertices and
\* faces, selected and active; returns the transformation of the pose element
import_box(sc, model, node, model_type, nr) ==
    LET verts == BoxVerts(model.geometry[1].box[1].size)
        obj == [NewObject(UniqueName(<<"visual">>, ObjectNames(sc.objects)), "MESH",
                          node, model_type, nr)
                    EXCEPT !.verts = verts, !.faces = BoxFaces, !.fileName = <<"visual">>]
        linked == [sc EXCEPT !.objects = Append(sc.objects, obj),
                             !.trace = Append(sc.trace, Event("create", node, model_type, nr,
                                                              Len(sc.objects) + 1))]
        toggled == select_all(linked)
        o == Len(linked.objects)
    IN  [sc |-> [toggled EXCEPT !.active_object = o, !.selected = toggled.selected \cup {o}],
         trafo |-> <<PoseTransform(model)>>]

\* the active object's RobotEditor.fileName is set
SetFileName(sc, fileName) ==
    IF sc.active_object = 0 THEN sc
    ELSE [sc EXCEPT !.objects[sc.active_object].fileName = fileName]

\* Importer.import_sphere
import_sphere(sc, model, node, model_type, nr) ==
    [sc |-> SetFileName(AddObject(sc, <<"Sphere">>, node, model_type, nr), <<"visual">>),
     trafo |-> <<PoseTransform(model)>>]

\* Importer.import_cylinder
import_cylinder(sc, model, node, model_type, nr) ==
    [sc |-> SetFileName(AddObject(sc, <<"Cylinder">>, node, model_type, nr), <<"visual">>),
     trafo |-> <<PoseTransform(model)>>]

PACKAGE_URL == "package://"

FILE_URL_RELATIVE == "model://"

FILE_URL_ABSOLUTE == "file:///"

\* str.startswith on a URI given as <<scheme, path, extension>>
startswith(uri, prefix) == uri[1] = prefix

\* number of objects the mesh file of an extension holds
FileObjects(extension) == IF extension = ".dae" THEN 2 ELSE 1

ScaleMatrix(scale) ==
    LET f == IF scale = <<>> THEN <<1, 1, 1>> ELSE scale[1]
    IN  <<<<f[1], 0, 0, 0>>, <<0, f[2], 0, 0>>, <<0, 0, f[3], 0>>, <<0, 0, 0, 1>>>>

\* Importer.import_geometry: loads the mesh file of a mesh element by its
\* extension; returns the transformation of the pose element, scaled, and
\* nothing (<<>>) for an unsupported URL schema
import_geometry(sc, model, node, model_type, nr) ==
    LET mesh_url == model.geometry[1].mesh[1].uri
        extension == mesh_url[3]
        stl == AddObject(sc, <<"part">>, node, model_type, nr)
        dae1 == AddObject(sc, <<"part">>, node, model_type, nr)
        dae2 == AddObject(dae1, <<"part">>, node, model_type, nr)
        dae == [dae2 EXCEPT !.selected = {Len(dae1.objects), Len(dae2.objects)}]
        loaded == IF extension = ".stl" THEN stl
                  ELSE IF extension = ".dae" THEN (IF FileObjects(extension) = 2 THEN dae ELSE dae1)
                  ELSE sc
    IN  IF ~(startswith(mesh_url, FILE_URL_ABSOLUTE) \/ startswith(mesh_url, FILE_URL_RELATIVE)
             \/ startswith(mesh_url, PACKAGE_URL))
        THEN [sc |-> [sc EXCEPT !.reports = Append(sc.reports, "Unsupported URL schema"),
                                !.errors = Append(sc.errors, "Unsupported URL schema")],
              trafo |-> <<>>]
        ELSE [sc |-> SetFileName(loaded, <<"part">>),
              trafo |-> <<MatMul(PoseTransform(model), ScaleMatrix(model.geometry[1].mesh[1].scale))>>]

\* ------------------------------------------------- parse: segment properties
\* the reference pose expressed in the frame of the link
LocalPose_swapped(ref_pose, child_link_pose) ==
    LET parent_pose_homo == pose_float2homogeneous(rounded(ref_pose))
        child_pose_homo == pose_float2homogeneous(rounded(child_link_pose))
    IN  pose2origin(child_pose_homo, parent_pose_homo)

\* lines 360-368: the pose of the link in the frame of the reference pose
LocalPose(ref_pose, child_link_pose) ==
    LET parent_pose_homo == pose_float2homogeneous(rounded(ref_pose))
        child_pose_homo == pose_float2homogeneous(rounded(child_link_pose))
    IN  pose2origin(parent_pose_homo, child_pose_homo)

\* the axis resolution without the flip of the -1.0 components
ResolveAxis_noflip(bone, axis) ==
    LET reverted == IF \E i \in 1..3 : axis[i] = -2
                    THEN [bone EXCEPT !.axis_revert = <<TRUE>>] ELSE bone
    IN  IF axis = <<2, 0, 0>> THEN [reverted EXCEPT !.axis = <<"X">>]
        ELSE IF axis = <<0, 2, 0>> THEN [reverted EXCEPT !.axis = <<"Y">>]
        ELSE IF axis = <<0, 0, 2>> THEN [reverted EXCEPT !.axis = <<"Z">>]
        ELSE reverted

\* lines 393-407: components equal to -1.0 are flipped and recorded as
\* axis_revert, a main axis is stored, any other vector only logged
ResolveAxis(bone, axis) ==
    LET flipped == [i \in 1..3 |-> IF axis[i] = -2 THEN 2 ELSE axis[i]]
        reverted == IF \E i \in 1..3 : axis[i] = -2
                    THEN [bone EXCEPT !.axis_revert = <<TRUE>>] ELSE bone
    IN  IF flipped = <<2, 0, 0>> THEN [reverted EXCEPT !.axis = <<"X">>]
        ELSE IF flipped = <<0, 2, 0>> THEN [reverted EXCEPT !.axis = <<"Y">>]
        ELSE IF flipped = <<0, 0, 2>> THEN [reverted EXCEPT !.axis = <<"Z">>]
        ELSE reverted

\* degrees() of an angle in quarter turns
DegreesOfQuarter(q) == 90 * q

\* degrees() of a joint limit in units of pi/4 rad
degrees(v) == 45 * v

\* lines 411-417: offset and whole-degree rotation of the segment
SetEuler(bone, local) ==
    [bone EXCEPT !.Euler = <<[x |-> local.xyz[1], y |-> local.xyz[2], z |-> local.xyz[3],
                              alpha |-> DegreesOfQuarter(local.euler[1]),
                              beta |-> DegreesOfQuarter(local.euler[2]),
                              gamma |-> DegreesOfQuarter(local.euler[3])]>>]

\* the velocity limit copied whether or not the axis has dynamics
SetVelocity_always(bone, joint, parent_name) ==
    IF parent_name # <<>> /\ Len(joint.limit) > 0
    THEN [bone EXCEPT !.maxVelocity = <<joint.limit[1].velocity>>]
    ELSE bone

\* lines 419-423: velocity limit of a joint with dynamics
SetVelocity(bone, joint, parent_name) ==
    IF parent_name # <<>> /\ joint.dynamics /\ Len(joint.limit) > 0
    THEN [bone EXCEPT !.maxVelocity = <<joint.limit[1].velocity>>]
    ELSE bone

\* joint mode and limits with the root treated as any other node
SetJointMode_noroot(bone, joint, parent_name) ==
    LET hasLimit == Len(joint.limit) > 0
        mode == CASE joint.type = "revolute" -> <<"REVOLUTE">>
                  [] joint.type = "prismatic" -> <<"PRISMATIC">>
                  [] joint.type = "fixed" -> <<"FIXED">>
                  [] OTHER -> bone.jointMode
        b == [bone EXCEPT !.jointMode = mode]
    IN  IF joint.type = "revolute" /\ hasLimit
        THEN [b EXCEPT !.theta_max = <<degrees(joint.limit[1].upper)>>,
                       !.theta_min = <<degrees(joint.limit[1].lower)>>]
        ELSE IF joint.type = "prismatic" /\ hasLimit
        THEN [b EXCEPT !.d_max = <<joint.limit[1].upper>>, !.d_min = <<joint.limit[1].lower>>]
        ELSE b

\* joint mode and limits with the limits of a revolute joint left in radians
SetJointMode_radians(bone, joint, parent_name) ==
    LET hasLimit == Len(joint.limit) > 0
        mode == CASE joint.type = "revolute" -> <<"REVOLUTE">>
                  [] joint.type = "prismatic" -> <<"PRISMATIC">>
                  [] joint.type = "fixed" -> <<"FIXED">>
                  [] OTHER -> bone.jointMode
        b == [bone EXCEPT !.jointMode = mode]
    IN  IF parent_name = <<>> THEN [bone EXCEPT !.jointMode = <<"FIXED">>]
        ELSE IF joint.type = "revolute" /\ hasLimit
        THEN [b EXCEPT !.theta_max = <<joint.limit[1].upper>>,
                       !.theta_min = <<joint.limit[1].lower>>]
        ELSE IF joint.type = "prismatic" /\ hasLimit
        THEN [b EXCEPT !.d_max = <<joint.limit[1].upper>>, !.d_min = <<joint.limit[1].lower>>]
        ELSE b

\* lines 427-441: joint mode and limits
SetJointMode(bone, joint, parent_name) ==
    LET hasLimit == Len(joint.limit) > 0
        revolute ==
            IF joint.type = "revolute"
            THEN LET b == [bone EXCEPT !.jointMode = <<"REVOLUTE">>]
                 IN  IF hasLimit
                     THEN [b EXCEPT !.theta_max = <<degrees(joint.limit[1].upper)>>,
                                    !.theta_min = <<degrees(joint.limit[1].lower)>>]
                     ELSE b
            ELSE bone
        prismatic ==
            IF joint.type = "prismatic"
            THEN LET b == [revolute EXCEPT !.jointMode = <<"PRISMATIC">>]
                 IN  IF hasLimit
                     THEN [b EXCEPT !.d_max = <<joint.limit[1].upper>>,
                                    !.d_min = <<joint.limit[1].lower>>]
                     ELSE b
            ELSE revolute
        fixed == IF joint.type = "fixed" THEN [prismatic EXCEPT !.jointMode = <<"FIXED">>]
                 ELSE prismatic
    IN  IF parent_name # <<>> THEN fixed ELSE [bone EXCEPT !.jointMode = <<"FIXED">>]

\* lines 387-390: the joint's axis, '1 0 0' for a root
JointAxis(joint, parent_name) == IF parent_name # <<>> THEN joint.axis ELSE <<2, 0, 0>>

\* lines 387-441 on the active bone
SegmentProperties(bone, joint, parent_name, local) ==
    SetJointMode(SetVelocity(SetEuler(ResolveAxis(bone, JointAxis(joint, parent_name)), local),
                             joint, parent_name),
                 joint, parent_name)

\* the inertial attachment giving up on a tensor with off-diagonal terms
AttachInertial_fatal(sc, link, node, segment_name) ==
    IF Len(link.inertial) > 0
    THEN LET i == link.inertial[1]
             created == CreatePhysical(sc, link.name, node)
             assigned == AssignPhysical(SelectSegment(SelectPhysical(created, link.name),
                                                      segment_name))
             f == ObjectIndex(assigned.objects, link.name)
             offdiag == i.ixy # 0 \/ i.ixz # 0 \/ i.iyz # 0
             msg == "Only diogonal inertia matrices currently supported"
         IN  IF offdiag
             THEN [assigned EXCEPT !.objects[f].mass = <<i.mass>>,
                                   !.reports = Append(assigned.reports, msg),
                                   !.errors = Append(assigned.errors, msg)]
             ELSE [assigned EXCEPT !.objects[f].mass = <<i.mass>>,
                                   !.objects[f].inertiaTensor = <<<<i.ixx, i.iyy, i.izz>>>>,
                                   !.trace = Append(assigned.trace,
                                                    Event("physical", node, -1, -1, f))]
    ELSE sc

\* lines 444-458: physics frame of a link with inertial data
AttachInertial(sc, link, node, segment_name) ==
    IF Len(link.inertial) > 0
    THEN LET i == link.inertial[1]
             created == CreatePhysical(sc, link.name, node)
             assigned == AssignPhysical(SelectSegment(SelectPhysical(created, link.name),
                                                      segment_name))
             f == ObjectIndex(assigned.objects, link.name)
             offdiag == i.ixy # 0 \/ i.ixz # 0 \/ i.iyz # 0
             msg == "Only diogonal inertia matrices currently supported"
         IN  [assigned EXCEPT
                !.objects[f].mass = <<i.mass>>,
                !.objects[f].inertiaTensor = <<<<i.ixx, i.iyy, i.izz>>>>,
                !.reports = IF offdiag THEN Append(assigned.reports, msg) ELSE assigned.reports,
                !.errors = IF offdiag THEN Append(assigned.errors, msg) ELSE assigned.errors,
                !.trace = Append(assigned.trace, Event("physical", node, -1, -1, f))]
    ELSE sc

\* ---------------------------------------------------- parse: geometry loop
VISUAL == 0

COLLISON == 1

\* "COL_%s_%d" / "VIZ_%s_%d" % (node.link.name, nr)
GeometryName(model_type, link_name, nr) ==
    <<IF model_type = COLLISON THEN "COL_" ELSE "VIZ_">> \o link_name \o <<"_">> \o FormatInt(nr)

\* assignment to the name of an object: the host keeps names unique
SetName(sc, o, name) ==
    [sc EXCEPT !.objects[o].name =
        UniqueName(name, {sc.objects[i].name : i \in (1..Len(sc.objects)) \ {o}})]

\* bpy.context.selected_objects as a list: scene order, newest object first
SelectedObjects(sc) ==
    LET S == sc.selected
    IN  [k \in 1..Cardinality(S) |->
            CHOOSE o \in S : Cardinality({j \in S : j > o}) = k - 1]

\* lines 548-550: every selected object is made active in turn and
\* parent_clear detaches the selected objects
ClearParents(sc, selected_objects) ==
    IF selected_objects = <<>> THEN sc
    ELSE [sc EXCEPT !.active_object = Last(selected_objects),
                    !.objects = [i \in 1..Len(sc.objects) |->
                        IF i \in sc.selected THEN [sc.objects[i] EXCEPT !.bone = <<>>]
                        ELSE sc.objects[i]]]

\* lines 552-591 for one object of selected_objects
PlaceObject(sc, object, ctx) ==
    IF sc.objects[object].type # "MESH" THEN sc
    ELSE LET toggled == select_all(sc)
             active == [toggled EXCEPT !.active_object = object,
                                       !.selected = toggled.selected \cup {object}]
             placed == [active EXCEPT !.trace = Append(active.trace,
                            Event("place", ctx.node, ctx.model_type, ctx.nr, object))]
             named == SetName(placed, object,
                              GeometryName(ctx.model_type, ctx.link_name, ctx.nr))
             tagged == IF ctx.model_type = COLLISON
                       THEN [named EXCEPT !.objects[object].tag = <<"COLLISION">>]
                       ELSE named
             stripped == SetName(tagged, object, RemoveSpaces(tagged.objects[object].name))
             assigned_name == stripped.objects[object].name
         IN  IF ctx.trafo_sdf = <<>>
             THEN [active EXCEPT !.exc = <<"TypeError">>]
             ELSE AssignGeometry(SelectGeometry(SelectSegment(SelectModel(stripped, ctx.model_name),
                                                              ctx.segment_name),
                                                assigned_name))

RECURSIVE PlaceObjects(_, _, _)
\* lines 551-591: the loop over selected_objects, left by an exception
PlaceObjects(sc, selected_objects, ctx) ==
    IF selected_objects = <<>> \/ sc.exc # <<>> THEN sc
    ELSE PlaceObjects(PlaceObject(sc, Head(selected_objects), ctx), Tail(selected_objects), ctx)

\* lines 538-545: the resolver of a geometry, cylinder before box before
\* sphere, a mesh otherwise
Resolve(sc, model, node, model_type, nr) ==
    IF Len(model.geometry[1].cylinder) > 0 THEN import_cylinder(sc, model, node, model_type, nr)
    ELSE IF Len(model.geometry[1].box) > 0 THEN import_box(sc, model, node, model_type, nr)
    ELSE IF Len(model.geometry[1].sphere) > 0 THEN import_sphere(sc, model, node, model_type, nr)
    ELSE import_geometry(sc, model, node, model_type, nr)

\* lines 480-594: the body of the geometry loop for one visual/collision
\* element; ctx holds parse's locals
GeometryStep(sc, model, ctx) ==
    IF Len(model.geometry) = 0 THEN sc
    ELSE IF \/ Len(model.geometry[1].mesh) > 0 \/ Len(model.geometry[1].cylinder) > 0
            \/ Len(model.geometry[1].box) > 0 \/ Len(model.geometry[1].sphere) > 0
    THEN LET r == Resolve(sc, model, ctx.node, ctx.model_type, ctx.nr)
             selected_objects == SelectedObjects(r.sc)
         IN  PlaceObjects(ClearParents(r.sc, selected_objects), selected_objects,
                          [ctx EXCEPT !.trafo_sdf = r.trafo])
    ELSE [sc EXCEPT !.errors = Append(sc.errors, "Mesh file not found")]

\* the geometric models of a link, visual first
GeometricModels(link) == <<link.visual, link.collision>>

\* position of the geometry loop at or after (model_type, nr): the next
\* element, or model_type 2 when both lists are done
LoopPosition(link, model_type, nr) ==
    IF model_type = VISUAL /\ nr < Len(link.visual) THEN <<VISUAL, nr>>
    ELSE IF model_type = VISUAL THEN (IF Len(link.collision) > 0 THEN <<COLLISON, 0>> ELSE <<2, 0>>)
    ELSE IF nr < Len(link.collision) THEN <<COLLISON, nr>>
    ELSE <<2, 0>>

\* -------------------------------------------------------- import operators
\* a temporary directory that stays when its with block is left
TemporaryDirectory_exit_kept(dir) == dir

\* line 761: tempfile.TemporaryDirectory leaving its with block, normally or
\* by an exception: the directory is removed
TemporaryDirectory_exit(dir) == IF dir = "exists" THEN "removed" ELSE dir

\* a file of an archive: its name and os.path.splitext(name)[1]
ArchiveFile(name, ext) == [name |-> name, ext |-> ext]

\* the archives handed to the operator: one zipfile cannot read, and the
\* files of the readable ones in the order os.walk yields them
Archives ==
    {[readable |-> FALSE, files |-> <<>>]} \cup
    {[readable |-> TRUE, files |-> files] : files \in
        { <<ArchiveFile("model.config", ".config"), ArchiveFile("model.sdf", ".sdf")>>,
          <<ArchiveFile("a.sdf", ".sdf"), ArchiveFile("b.sdf", ".sdf")>>,
          <<ArchiveFile("model.config", ".config"), ArchiveFile("part.stl", ".stl")>>,
          <<ArchiveFile("model.SDF", ".SDF")>>,
          <<>> }}

RECURSIVE FindSDF(_, _)
\* lines 765-772: the walk over the extracted files; found holds file_path
\* and the reports so far, the last file with extension .sdf is chosen
FindSDF(files, found) ==
    IF files = <<>> THEN found
    ELSE LET i == Head(files)
         IN  FindSDF(Tail(files),
                     IF ".sdf" = i.ext
                     THEN [file_path |-> i.name,
                           reports |-> IF found.file_path # ""
                                       THEN Append(found.reports,
                                                   "Multiple SDF in zip. Choosing: " \o i.name)
                                       ELSE found.reports]
                     ELSE found)

\* import_config giving up the segments created when model.config cannot be read
import_config_rollback(sc, readable) ==
    IF ~readable
    THEN [sc EXCEPT !.exc = <<"FileNotFoundError">>, !.bones = <<>>,
                    !.trace = Append(sc.trace, Event("import_config", 0, -1, -1, 0))]
    ELSE [sc EXCEPT !.objects[sc.active_object].modelMeta = <<"model.config">>,
                    !.trace = Append(sc.trace, Event("import_config", 0, -1, -1, 0))]

\* lines 689-709: model.config beside the description is opened and its
\* fields are stored on the active object; open raises when it cannot be read
import_config(sc, readable) ==
    IF ~readable
    THEN [sc EXCEPT !.exc = <<"FileNotFoundError">>,
                    !.trace = Append(sc.trace, Event("import_config", 0, -1, -1, 0))]
    ELSE [sc EXCEPT !.objects[sc.active_object].modelMeta = <<"model.config">>,
                    !.trace = Append(sc.trace, Event("import_config", 0, -1, -1, 0))]

\* ---------------------------------------------------------------- actions
\* a call of parse(node, ref_pose, parent_name) that has not run yet
Frame(node, ref_pose, parent_name) ==
    [node |-> node, ref_pose |-> ref_pose, parent_name |-> parent_name, pc |-> "segment",
     segment_name |-> <<>>, child_link_pose |-> <<>>, parent_pose_homo |-> <<>>,
     child_pose_homo |-> <<>>, local |-> <<>>, model_name |-> <<>>,
     model_type |-> VISUAL, nr |-> 0, child |-> 1]

\* the arguments of a call of parse
Call(node, ref_pose, parent_name) ==
    [node |-> node, ref_pose |-> ref_pose, parent_name |-> parent_name]

Top == stack[Len(stack)]

SetTop(frame) == [stack EXCEPT ![Len(stack)] = frame]

\* the scene variables take the values of a scene record
Becomes(sc) ==
    /\ objects' = sc.objects
    /\ selected' = sc.selected
    /\ active_object' = sc.active_object
    /\ bones' = sc.bones
    /\ active_bone' = sc.active_bone
    /\ reports' = sc.reports
    /\ errors' = sc.errors
    /\ trace' = sc.trace
    /\ exc' = sc.exc

robot_name == <<"robot">>

\* ImportPlain.execute, lines 731-733: the Importer is made for the file
ImportPlain_execute ==
    /\ pc = "idle"
    /\ operator' = "ImportPlain"
    /\ file_path' = "model.sdf"
    /\ pc' = "start"
    /\ UNCHANGED <<parentOf, nodes, chain, stack, root_name, bones, active_bone, objects,
                   selected, active_object, reports, errors, trace, calls, exc, target, result>>

\* ImportZippedPackage.execute, lines 757-781 up to the call of import_file:
\* the archive is extracted into a temporary directory and searched for a
\* description; without one the error is reported and execute ends
ImportZippedPackage_execute ==
    /\ pc = "idle"
    /\ operator' = "ImportZippedPackage"
    /\ \E archive \in Archives :
          LET found == FindSDF(archive.files, [file_path |-> "", reports |-> reports])
          IN  IF ~archive.readable
              THEN /\ exc' = <<"BadZipFile">>
                   /\ pc' = "raised"
                   /\ target' = TemporaryDirectory_exit("exists")
                   /\ UNCHANGED <<file_path, reports, errors, result>>
              ELSE IF found.file_path # ""
              THEN /\ file_path' = found.file_path
                   /\ reports' = found.reports
                   /\ pc' = "start"
                   /\ target' = "exists"
                   /\ UNCHANGED <<errors, exc, result>>
              ELSE /\ reports' = Append(found.reports, "No SDF file found in package")
                   /\ errors' = Append(errors, "No SDF file found in package")
                   /\ pc' = "finished"
                   /\ target' = TemporaryDirectory_exit("exists")
                   /\ result' = <<"None">>
                   /\ UNCHANGED <<file_path, exc>>
    /\ UNCHANGED <<parentOf, nodes, chain, stack, root_name, bones, active_bone, objects,
                   selected, active_object, trace, calls>>

\* import_file, lines 602-626: the model is created and selected
import_file_begin ==
    /\ pc = "start"
    /\ Becomes(LET created == CreateNewModel(Scene, robot_name)
               IN  SelectModel(created, created.objects[created.active_object].name))
    /\ pc' = "chains"
    /\ chain' = 1
    /\ UNCHANGED <<parentOf, nodes, stack, root_name, calls,
                   operator, file_path, target, result>>

\* import_file, lines 646-649: parse is called on the next kinematic chain
import_file_chain ==
    /\ pc = "chains"
    /\ chain <= Len(kinematic_chains)
    /\ stack' = <<Frame(kinematic_chains[chain], ZeroPose, <<>>)>>
    /\ calls' = Append(calls, Call(kinematic_chains[chain], ZeroPose, <<>>))
    /\ pc' = "parse"
    /\ UNCHANGED <<parentOf, nodes, chain, root_name, bones, active_bone, objects, selected,
                   active_object, reports, errors, trace, exc,
                   operator, file_path, target, result>>

\* parse, lines 346-441: the segment is created below the parent segment and
\* its pose, axis, velocity limit, joint mode and limits are set
parse_segment ==
    /\ pc = "parse"
    /\ Top.pc = "segment"
    /\ LET f == Top
           node == nodes[f.node]
           sel == SelectSegment(Scene, f.parent_name)
           created == CreateNewSegment(sel, IF f.parent_name # <<>> THEN node.joint.name
                                            ELSE <<"rd_virtual_joint">>, f.node)
           segment_name == created.active_bone
           child_link_pose == IF node.link.pose = <<>> THEN ZeroPose ELSE node.link.pose[1]
           local == LocalPose(f.ref_pose, child_link_pose)
           b == BoneIndex(created.bones, created.active_bone)
           sc == [created EXCEPT !.bones[b] =
                     SegmentProperties(created.bones[b], node.joint, f.parent_name, local)]
       IN  /\ Becomes(sc)
           /\ stack' = SetTop([f EXCEPT !.pc = "inertial", !.segment_name = segment_name,
                                        !.child_link_pose = child_link_pose,
                                        !.parent_pose_homo =
                                            pose_float2homogeneous(rounded(f.ref_pose)),
                                        !.child_pose_homo =
                                            pose_float2homogeneous(rounded(child_link_pose)),
                                        !.local = <<local>>])
    /\ UNCHANGED <<parentOf, nodes, pc, chain, root_name, calls,
                   operator, file_path, target, result>>

\* parse, lines 444-469: the inertial data is attached and the model is read
\* from the active object
parse_inertial ==
    /\ pc = "parse"
    /\ Top.pc = "inertial"
    /\ LET f == Top
           link == nodes[f.node].link
           sc == AttachInertial(Scene, link, f.node, f.segment_name)
           pos == LoopPosition(link, VISUAL, 0)
       IN  /\ Becomes(sc)
           /\ stack' = SetTop([f EXCEPT !.pc = IF pos[1] = 2 THEN "children" ELSE "geometry",
                                        !.model_name = sc.objects[sc.active_object].name,
                                        !.model_type = pos[1], !.nr = pos[2]])
    /\ UNCHANGED <<parentOf, nodes, pc, chain, root_name, calls,
                   operator, file_path, target, result>>

\* parse, lines 478-594: one visual or collision element is resolved and its
\* objects are placed, named and attached; an exception leaves import_file
\* and execute, through the with block of the temporary directory
parse_geometry ==
    /\ pc = "parse"
    /\ Top.pc = "geometry"
    /\ LET f == Top
           link == nodes[f.node].link
           model == GeometricModels(link)[f.model_type + 1][f.nr + 1]
           ctx == [node |-> f.node, model_type |-> f.model_type, nr |-> f.nr,
                   link_name |-> link.name, segment_name |-> f.segment_name,
                   model_name |-> f.model_name, trafo_sdf |-> <<>>]
           sc == GeometryStep(Scene, model, ctx)
           pos == LoopPosition(link, f.model_type, f.nr + 1)
       IN  /\ Becomes(sc)
           /\ IF sc.exc # <<>>
              THEN /\ pc' = "raised"
                   /\ stack' = stack
                   /\ target' = TemporaryDirectory_exit(target)
              ELSE /\ pc' = pc
                   /\ stack' = SetTop([f EXCEPT !.pc = IF pos[1] = 2 THEN "children"
                                                       ELSE "geometry",
                                                !.model_type = pos[1], !.nr = pos[2]])
                   /\ target' = target
    /\ UNCHANGED <<parentOf, nodes, chain, root_name, calls, operator, file_path, result>>

\* the loop over node.children never advancing past the first child
sub_tree_first(frame) == children(frame.node)[1]

\* the loop over node.children running from the last child to the first
sub_tree_reversed(frame) ==
    children(frame.node)[Len(children(frame.node)) + 1 - frame.child]

\* lines 596-598: the sub tree the loop over node.children is at
sub_tree(frame) == children(frame.node)[frame.child]

\* the reference pose of the caller handed on to the children
ref_pose_inherited(frame) == frame.ref_pose

\* line 597: ref_pose = child_link_pose, the pose of this node's link
ref_pose(frame) == frame.child_link_pose

\* parse, lines 596-598: parse is called on the next child with the link's
\* pose as reference pose and the segment as parent
parse_recurse ==
    /\ pc = "parse"
    /\ Top.pc = "children"
    /\ Top.child <= Len(children(Top.node))
    /\ LET f == Top
           pose == ref_pose(f)
       IN  /\ stack' = Append(SetTop([f EXCEPT !.child = f.child + 1, !.ref_pose = pose]),
                              Frame(sub_tree(f), pose, f.segment_name))
           /\ calls' = Append(calls, Call(sub_tree(f), pose, f.segment_name))
    /\ UNCHANGED <<parentOf, nodes, pc, chain, root_name, bones, active_bone, objects, selected,
                   active_object, reports, errors, trace, exc,
                   operator, file_path, target, result>>

\* the name of the active bone when parse returns
segment_name_active(frame) == active_bone

\* line 599: the value parse returns, the name of the segment it created
segment_name(frame) == frame.segment_name

\* parse, line 599: segment_name is returned to the caller
parse_return ==
    /\ pc = "parse"
    /\ Top.pc = "children"
    /\ Top.child > Len(children(Top.node))
    /\ stack' = SubSeq(stack, 1, Len(stack) - 1)
    /\ trace' = Append(trace, Event("return", Top.node, -1, -1, 0))
    /\ IF Len(stack) = 1
       THEN /\ root_name' = segment_name(Top)
            /\ pc' = "update"
       ELSE UNCHANGED <<root_name, pc>>
    /\ UNCHANGED <<parentOf, nodes, chain, bones, active_bone, objects, selected,
                   active_object, reports, errors, calls, exc,
                   operator, file_path, target, result>>

\* import_file, line 650: the segments of the chain are updated from its root
import_file_update ==
    /\ pc = "update"
    /\ trace' = Append(trace, Event("update", BoneIndex(bones, root_name), -1, -1, 0))
    /\ chain' = chain + 1
    /\ pc' = "chains"
    /\ UNCHANGED <<parentOf, nodes, stack, root_name, bones, active_bone, objects, selected,
                   active_object, reports, errors, calls, exc,
                   operator, file_path, target, result>>

\* import_file, lines 651-657: all chains are walked
import_file_end ==
    /\ pc = "chains"
    /\ chain > Len(kinematic_chains)
    /\ pc' = "done"
    /\ UNCHANGED <<parentOf, nodes, chain, stack, root_name, bones, active_bone, objects,
                   selected, active_object, reports, errors, trace, calls, exc,
                   operator, file_path, target, result>>

\* execute, lines 735-736 and 778: import_config is called after import_file
\* and execute returns, {'FINISHED'} in ImportPlain and nothing in
\* ImportZippedPackage; an exception leaves execute
execute_import_config ==
    /\ pc = "done"
    /\ \E readable \in BOOLEAN :
          LET sc == import_config(Scene, readable)
          IN  /\ Becomes(sc)
              /\ pc' = IF sc.exc # <<>> THEN "raised" ELSE "finished"
              /\ result' = IF sc.exc # <<>> THEN result
                            ELSE IF operator = "ImportPlain" THEN <<"FINISHED">>
                            ELSE <<"None">>
    /\ target' = TemporaryDirectory_exit(target)
    /\ UNCHANGED <<parentOf, nodes, chain, stack, root_name, calls, operator, file_path>>

Next ==
    \/ ImportPlain_execute
    \/ ImportZippedPackage_execute
    \/ import_file_begin
    \/ import_file_chain
    \/ parse_segment
    \/ parse_inertial
    \/ parse_geometry
    \/ parse_recurse
    \/ parse_return
    \/ import_file_update
    \/ import_file_end
    \/ execute_import_config

\* ------------------------------------------------------------ specifications
\* the scene before the operator runs: empty, nothing selected
InitScene ==
    /\ pc = "idle"
    /\ operator = ""
    /\ file_path = ""
    /\ target = "none"
    /\ result = <<>>
    /\ chain = 0
    /\ stack = <<>>
    /\ root_name = <<>>
    /\ bones = <<>>
    /\ active_bone = <<>>
    /\ objects = <<>>
    /\ selected = {}
    /\ active_object = 0
    /\ reports = <<>>
    /\ errors = <<>>
    /\ trace = <<>>
    /\ calls = <<>>
    /\ exc = <<>>

\* descriptions of up to MaxNodes links of every tree shape, and descriptions
\* of one link with every list of geometry elements
Init ==
    /\ InitScene
    /\ \/ \E n \in 1..MaxNodes :
             /\ parentOf \in Forests(n)
             /\ \E prof \in [1..n -> TreeProfiles] : nodes = [k \in 1..n |-> MkNode(k, prof[k])]
       \/ /\ parentOf = <<0>>
          /\ \E visual \in SeqsUpTo(GeometryInputs, MaxVisual),
                collision \in SeqsUpTo(GeometryInputs, MaxCollision),
                inertial \in {<<>>, <<DiagInertia>>} :
                nodes = <<MkNode(1, [joint |-> MkJoint("fixed", <<2, 0, 0>>, <<>>, FALSE),
                                     link |-> MkLink(<<>>, inertial, visual, collision)])>>

Spec == Init /\ [][Next]_vars

\* a 3-vector with components from S
Vectors(S) == {<<x, y, z>> : x \in S, y \in S, z \in S}

\* joints of every type: every axis vector over -1, -0.5, 0, 0.5, 1 with and
\* without limits and dynamics, and every limit up to MaxLimit
JointInputs ==
    {MkJoint(type, axis, limit, dynamics) :
        type \in {"revolute", "prismatic", "fixed", "ball"},
        axis \in Vectors({-2, -1, 0, 1, 2}),
        limit \in {<<>>, <<LimitA>>},
        dynamics \in BOOLEAN}
    \cup
    {MkJoint(type, <<0, 0, 2>>, <<[lower |-> lower, upper |-> upper, velocity |-> velocity]>>,
             dynamics) :
        type \in {"revolute", "prismatic", "fixed", "ball"},
        lower \in (-MaxLimit)..0,
        upper \in 0..MaxLimit,
        velocity \in {0, 3},
        dynamics \in BOOLEAN}

BoxLink == MkLink(<<>>, <<>>, <<Instance(<<Box(<<2, 4, 6>>)>>, <<>>)>>, <<>>)

\* a chain of two links whose nodes both carry the same joint data
InitJoint ==
    /\ InitScene
    /\ parentOf = <<0, 1>>
    /\ \E joint \in JointInputs :
          nodes = <<MkNode(1, [joint |-> joint, link |-> BoxLink]),
                    MkNode(2, [joint |-> joint, link |-> BoxLink])>>

SpecJoint == InitJoint /\ [][Next]_vars

\* link poses: no pose, or an offset with every rotation by quarter turns
PoseInputs ==
    {<<>>} \cup {<<xyz \o rpy>> : xyz \in {<<0, 0, 0>>, <<14, -37, 25>>},
                                  rpy \in Vectors({-1, 0, 1, 2})}

\* a chain of two links with every pair of link poses
InitPose ==
    /\ InitScene
    /\ parentOf = <<0, 1>>
    /\ \E parent_pose \in PoseInputs, child_pose \in PoseInputs :
          nodes = <<MkNode(1, [joint |-> MkJoint("fixed", <<2, 0, 0>>, <<>>, FALSE),
                               link |-> [BoxLink EXCEPT !.pose = parent_pose]]),
                    MkNode(2, [joint |-> MkJoint("revolute", <<0, 0, 2>>, <<LimitA>>, FALSE),
                               link |-> [BoxLink EXCEPT !.pose = child_pose]])>>

SpecPose == InitPose /\ [][Next]_vars

\* box sizes: even, so that the half-extents are whole numbers
BoxSizes == Vectors({2 * k : k \in 1..MaxSize})

\* a chain of two links, the first with a box of every size, with and
\* without a pose element
InitBox ==
    /\ InitScene
    /\ parentOf = <<0, 1>>
    /\ \E size \in BoxSizes, pose \in {<<>>, <<PoseA>>, <<PoseB>>},
          visual \in BOOLEAN :
          LET box == <<Instance(<<Box(size)>>, pose)>>
          IN  nodes = <<MkNode(1, [joint |-> MkJoint("fixed", <<2, 0, 0>>, <<>>, FALSE),
                                   link |-> MkLink(<<>>, <<>>, IF visual THEN box ELSE <<>>,
                                                   IF visual THEN <<>> ELSE box)]),
                        MkNode(2, [joint |-> MkJoint("revolute", <<0, 0, 2>>, <<LimitA>>, FALSE),
                                   link |-> MkLink(<<PoseA>>, <<>>, <<>>, <<>>)])>>

SpecBox == InitBox /\ [][Next]_vars

\* ------------------------------------------------------------------ claims
BoneNodes == [i \in 1..Len(bones) |-> bones[i].node]

\* calls of parse that have not reached CreateNewSegment yet
PendingCalls == IF stack # <<>> /\ Top.pc = "segment" THEN 1 ELSE 0

\* C1, state part: every call of parse that got to its segment creation has
\* created exactly one bone, no node has two bones, no two bones share a name,
\* and when import_file is done there is exactly one bone per node.
C1_StatePart ==
    /\ Len(bones) = Len(calls) - PendingCalls
    /\ \A i, j \in 1..Len(bones) :
          i # j => bones[i].node # bones[j].node /\ bones[i].name # bones[j].name
    /\ \A i \in 1..Len(bones) : bones[i].node = calls[i].node
    /\ pc = "done" => Len(bones) = NumNodes /\ Range(BoneNodes) = 1..NumNodes

\* C1, step part: no step of the import removes, renames or replaces a bone,
\* and a step adds at most one.
C1_StepPart ==
    /\ Len(bones') \in {Len(bones), Len(bones) + 1}
    /\ \A i \in 1..Len(bones) : bones'[i].name = bones[i].name /\ bones'[i].node = bones[i].node

\* C1: every invocation of parse creates exactly one bone; after import_file
\* has walked the chains there is one bone per node, no node has two bones and
\* no bone is destroyed during the import.
C1_OneBonePerNode == [](C1_StatePart) /\ [][C1_StepPart]_vars

\* C1 witness: an import of several chains with a branching node is done
C1_Witness ==
    /\ pc = "done"
    /\ Len(bones) >= 3
    /\ Len(kinematic_chains) >= 2
    /\ \E n \in 1..NumNodes : parentOf[n] # 0

RECURSIVE PreOrderOf(_)
\* depth-first pre-order of the nodes below the nodes of a list, first to last
PreOrderOf(list) ==
    IF list = <<>> THEN <<>>
    ELSE <<Head(list)>> \o PreOrderOf(children(Head(list))) \o PreOrderOf(Tail(list))

\* C2: the bones are created in depth-first pre-order of the kinematic trees:
\* a node before its descendants, children in declared order, the subtree of
\* a child completed before the next child.
C2_PreOrder == BoneNodes = SubSeq(PreOrderOf(kinematic_chains), 1, Len(bones))

\* C2 witness: a finished import whose creation order is not the declaration
\* order of the nodes
C2_Witness ==
    /\ pc = "done"
    /\ \E i \in 1..Len(bones) : bones[i].node # i

\* the events of the trace that create or place an object
GeometryEvents == SelectSeq(trace, LAMBDA e : e.op \in {"create", "place"})

\* a name without the suffix the host appends to keep names unique
BaseName(name) ==
    IF Len(name) > 4 /\ name[Len(name) - 3] = "." THEN SubSeq(name, 1, Len(name) - 4) ELSE name

\* the name and tag the claim gives the object of element nr of a list
ClaimedName(node, model_type, nr) ==
    RemoveSpaces(<<IF model_type = 1 THEN "COL_" ELSE "VIZ_">> \o nodes[node].link.name
                 \o <<"_">> \o FormatInt(nr))

\* C3: within one node every visual element is processed before any collision
\* element and each list in declared order, and the object produced by
\* element i is named VIZ_<link>_<i> (visual list) or COL_<link>_<i> and
\* tagged COLLISION (collision list), spaces removed.
C3_OrderAndNames ==
    /\ \A i, j \in 1..Len(GeometryEvents) :
          (i < j /\ GeometryEvents[i].node = GeometryEvents[j].node)
          => \/ GeometryEvents[i].model_type < GeometryEvents[j].model_type
             \/ /\ GeometryEvents[i].model_type = GeometryEvents[j].model_type
                /\ GeometryEvents[i].nr <= GeometryEvents[j].nr
    /\ \A o \in 1..Len(objects) :
          (objects[o].type = "MESH" /\ exc = <<>>)
          => /\ BaseName(objects[o].name)
                  = ClaimedName(objects[o].node, objects[o].model_type, objects[o].nr)
             /\ objects[o].tag = IF objects[o].model_type = 1 THEN <<"COLLISION">> ELSE <<>>

\* the element the geometry loop of the innermost call is at
CurrentModel == GeometricModels(nodes[Top.node].link)[Top.model_type + 1][Top.nr + 1]

AtGeometry == pc = "parse" /\ stack # <<>> /\ Top.pc = "geometry"

\* the loop is at a mesh element whose URI has none of the three schemas
AtUnsupportedURL ==
    /\ AtGeometry
    /\ Len(CurrentModel.geometry) > 0
    /\ Len(CurrentModel.geometry[1].mesh) > 0
    /\ Len(CurrentModel.geometry[1].cylinder) = 0
    /\ Len(CurrentModel.geometry[1].box) = 0
    /\ Len(CurrentModel.geometry[1].sphere) = 0
    /\ CurrentModel.geometry[1].mesh[1].uri[1] \notin {"package://", "model://", "file:///"}

\* C7: a mesh element with an unsupported URL schema is reported and logged,
\* no object is placed, renamed or attached for it, no exception escapes parse
\* and the loop goes on to the remaining elements and the children.
C7_UnsupportedURLNonFatal ==
    [][AtUnsupportedURL =>
          /\ reports' = Append(reports, "Unsupported URL schema")
          /\ errors' = Append(errors, "Unsupported URL schema")
          /\ trace' = trace
          /\ Len(objects') = Len(objects)
          /\ \A o \in 1..Len(objects) :
                /\ objects'[o].name = objects[o].name
                /\ objects'[o].bone \in {objects[o].bone, <<>>}
          /\ exc' = <<>>
          /\ pc' = "parse"
          /\ Len(stack') = Len(stack)
          /\ stack'[Len(stack')].pc \in {"geometry", "children"}
          /\ <<stack'[Len(stack')].model_type, stack'[Len(stack')].nr>>
                # <<Top.model_type, Top.nr>>]_vars

IsRoot(n) == parentOf[n] = 0

\* the axis the claim expects for a vector after the flip of its -1.0
\* components: X, Y or Z for a unit vector, nothing otherwise
ClaimedAxis(v) ==
    LET w == [i \in 1..3 |-> IF v[i] = -2 THEN 2 ELSE v[i]]
    IN  CASE w[1] = 2 /\ w[2] = 0 /\ w[3] = 0 -> <<"X">>
          [] w[1] = 0 /\ w[2] = 2 /\ w[3] = 0 -> <<"Y">>
          [] w[1] = 0 /\ w[2] = 0 /\ w[3] = 2 -> <<"Z">>
          [] OTHER -> <<>>

\* C4: for the bone of a non-root node, axis_revert is set to true exactly
\* when a component of the joint's axis vector is -1.0, and the axis is X, Y
\* or Z when the flipped vector is that unit vector and left unresolved
\* otherwise; [-1,0,0] gives X reverted, [0,1,0] gives Y not reverted,
\* [0.5,0.5,0] gives no axis.
C4_AxisResolution ==
    \A i \in 1..Len(bones) :
        ~IsRoot(bones[i].node) =>
            LET v == nodes[bones[i].node].joint.axis
            IN  /\ bones[i].axis = ClaimedAxis(v)
                /\ bones[i].axis_revert = IF -2 \in Range(v) THEN <<TRUE>> ELSE <<>>
                /\ v = <<-2, 0, 0>> => bones[i].axis = <<"X">> /\ bones[i].axis_revert = <<TRUE>>
                /\ v = <<0, 2, 0>> => bones[i].axis = <<"Y">> /\ bones[i].axis_revert = <<>>
                /\ v = <<1, 1, 0>> => bones[i].axis = <<>>

\* C4 witness: the bone of a joint with axis [-1,0,0] is reverted with axis X
C4_Witness ==
    \E i \in 1..Len(bones) :
        /\ ~IsRoot(bones[i].node)
        /\ nodes[bones[i].node].joint.axis = <<-2, 0, 0>>
        /\ bones[i].axis = <<"X">>
        /\ bones[i].axis_revert = <<TRUE>>

\* C5: every chain root is parsed with reference pose [0,0,0,0,0,0] and an
\* empty parent name, and its bone is FIXED with axis X, no joint limits and
\* no velocity limit, whatever joint data the node carries.
C5_RootSynthesis ==
    /\ \A k \in 1..Len(calls) :
          IsRoot(calls[k].node) => calls[k].ref_pose = ZeroPose /\ calls[k].parent_name = <<>>
    /\ \A i \in 1..Len(bones) :
          IsRoot(bones[i].node) =>
              /\ bones[i].jointMode = <<"FIXED">>
              /\ bones[i].axis = <<"X">>
              /\ bones[i].theta_min = <<>> /\ bones[i].theta_max = <<>>
              /\ bones[i].d_min = <<>> /\ bones[i].d_max = <<>>
              /\ bones[i].maxVelocity = <<>>

\* C5 witness: the bone of a root whose node carries a revolute joint about
\* -Y with limits and dynamics
C5_Witness ==
    \E i \in 1..Len(bones) :
        /\ IsRoot(bones[i].node)
        /\ nodes[bones[i].node].joint.type = "revolute"
        /\ nodes[bones[i].node].joint.axis = <<0, -2, 0>>
        /\ nodes[bones[i].node].joint.limit # <<>>
        /\ nodes[bones[i].node].joint.dynamics
        /\ pc = "done"

\* C10: for the bone of a non-root node, revolute gives REVOLUTE with the
\* limits in degrees in theta, prismatic gives PRISMATIC with the limits
\* unchanged in d, fixed gives FIXED; only the limit fields of the matching
\* mode are written.
C10_JointModeAndLimits ==
    \A i \in 1..Len(bones) :
        ~IsRoot(bones[i].node) =>
            LET joint == nodes[bones[i].node].joint
                b == bones[i]
                limited == joint.limit # <<>>
            IN  /\ joint.type = "revolute" =>
                       /\ b.jointMode = <<"REVOLUTE">>
                       /\ limited => /\ b.theta_min = <<45 * joint.limit[1].lower>>
                                     /\ b.theta_max = <<45 * joint.limit[1].upper>>
                       /\ b.d_min = <<>> /\ b.d_max = <<>>
                /\ joint.type = "prismatic" =>
                       /\ b.jointMode = <<"PRISMATIC">>
                       /\ limited => /\ b.d_min = <<joint.limit[1].lower>>
                                     /\ b.d_max = <<joint.limit[1].upper>>
                       /\ b.theta_min = <<>> /\ b.theta_max = <<>>
                /\ joint.type = "fixed" =>
                       /\ b.jointMode = <<"FIXED">>
                       /\ b.theta_min = <<>> /\ b.theta_max = <<>>
                       /\ b.d_min = <<>> /\ b.d_max = <<>>

\* C10 witness: a revolute bone with limits -pi/4 .. pi/2 stored as -45 .. 90
C10_Witness ==
    \E i \in 1..Len(bones) :
        /\ ~IsRoot(bones[i].node)
        /\ nodes[bones[i].node].joint.type = "revolute"
        /\ nodes[bones[i].node].joint.limit # <<>>
        /\ nodes[bones[i].node].joint.limit[1].lower = -1
        /\ nodes[bones[i].node].joint.limit[1].upper = 2
        /\ bones[i].theta_min = <<-45>>
        /\ bones[i].theta_max = <<90>>

AtInertial == pc = "parse" /\ stack # <<>> /\ Top.pc = "inertial"

InertiaMessage == "Only diogonal inertia matrices currently supported"

OffDiagonal(i) == i.ixy # 0 \/ i.ixz # 0 \/ i.iyz # 0

\* C6, step part: the inertial step of a link with inertial data creates the
\* physical record, assigns it to the segment, stores the mass and the tensor
\* [ixx, iyy, izz], reports an error exactly when an off-diagonal term is not
\* zero, raises nothing and goes on to the geometry and the children.
C6_StepPart ==
    AtInertial =>
        LET link == nodes[Top.node].link
            top == stack'[Len(stack')]
        IN  /\ exc' = <<>>
            /\ pc' = "parse"
            /\ Len(stack') = Len(stack)
            /\ top.pc \in {"geometry", "children"}
            /\ IF link.inertial = <<>>
               THEN objects' = objects /\ reports' = reports /\ errors' = errors
               ELSE LET i == link.inertial[1]
                    IN  /\ Len(objects') = Len(objects) + 1
                        /\ objects'[Len(objects')].name = link.name
                        /\ objects'[Len(objects')].bone = top.segment_name
                        /\ objects'[Len(objects')].mass = <<i.mass>>
                        /\ objects'[Len(objects')].inertiaTensor = <<<<i.ixx, i.iyy, i.izz>>>>
                        /\ reports' = IF OffDiagonal(i) THEN Append(reports, InertiaMessage)
                                      ELSE reports
                        /\ errors' = IF OffDiagonal(i) THEN Append(errors, InertiaMessage)
                                     ELSE errors

\* C6, state part: a physical record keeps the mass and the diagonal of the
\* inertia of its link.
C6_StatePart ==
    \A o \in 1..Len(objects) :
        objects[o].type = "EMPTY" =>
            LET i == nodes[objects[o].node].link.inertial[1]
            IN  /\ objects[o].mass = <<i.mass>>
                /\ objects[o].inertiaTensor = <<<<i.ixx, i.iyy, i.izz>>>>

\* C6: off-diagonal inertia terms are reported as a non-fatal error, the
\* physical record is still created and assigned with the mass and the tensor
\* [ixx, iyy, izz], and the geometry and the children are still processed;
\* without off-diagonal terms nothing is reported and the same tensor is stored.
C6_InertiaTruncation == [](C6_StatePart) /\ [][C6_StepPart]_vars

\* C6 witness: a finished import with a link whose inertia has ixy # 0, the
\* error reported, its tensor stored, its geometry attached and its child parsed
C6_Witness ==
    /\ pc = "done"
    /\ InertiaMessage \in Range(reports)
    /\ \E o, g \in 1..Len(objects) :
          /\ objects[o].type = "EMPTY"
          /\ nodes[objects[o].node].link.inertial[1].ixy # 0
          /\ objects[o].inertiaTensor = <<<<1, 2, 3>>>>
          /\ objects[g].type = "MESH"
          /\ objects[g].node = objects[o].node
          /\ objects[g].bone # <<>>
          /\ Len(children(objects[o].node)) > 0

ModelOf(o) == GeometricModels(nodes[objects[o].node].link)[objects[o].model_type + 1][objects[o].nr + 1]

IsBoxObject(o) ==
    /\ objects[o].type = "MESH"
    /\ Len(ModelOf(o).geometry) > 0
    /\ Len(ModelOf(o).geometry[1].box) > 0

\* C9: the object import_box creates for a box of size [sx,sy,sz] has exactly
\* the 8 vertices (+-sx/2, +-sy/2, +-sz/2) and the 6 quad faces (0,1,2,3),
\* (4,7,6,5), (0,4,5,1), (1,5,6,2), (2,6,7,3), (4,0,3,7), with and without a
\* pose element.
C9_BoxGeometry ==
    \A o \in 1..Len(objects) :
        IsBoxObject(o) =>
            LET size == ModelOf(o).geometry[1].box[1].size
                verts == objects[o].verts
            IN  /\ Len(verts) = 8
                /\ \A a, b, c \in {-1, 1} :
                      \E i \in 1..8 : /\ 2 * verts[i][1] = a * size[1]
                                      /\ 2 * verts[i][2] = b * size[2]
                                      /\ 2 * verts[i][3] = c * size[3]
                /\ objects[o].faces = <<<<0, 1, 2, 3>>, <<4, 7, 6, 5>>, <<0, 4, 5, 1>>,
                                        <<1, 5, 6, 2>>, <<2, 6, 7, 3>>, <<4, 0, 3, 7>>>>

\* C9 witness: the object of a box of size [2,4,6] with a pose element, with
\* a vertex at (1,2,3) and one at (-1,-2,-3)
C9_Witness ==
    \E o \in 1..Len(objects) :
        /\ IsBoxObject(o)
        /\ ModelOf(o).pose # <<>>
        /\ ModelOf(o).geometry[1].box[1].size = <<2, 4, 6>>
        /\ <<1, 2, 3>> \in Range(objects[o].verts)
        /\ <<-1, -2, -3>> \in Range(objects[o].verts)

Ended == pc \in {"finished", "raised"}

\* C11: the temporary directory of ImportZippedPackage.execute exists only
\* while execute runs: it is removed when execute has returned, after an
\* import as after the missing description, and when execute was left by an
\* exception of the extraction, of import_file or of import_config.
C11_TempDirRemoved ==
    /\ Ended /\ operator = "ImportZippedPackage" => target = "removed"
    /\ Ended => target # "exists"
    /\ target = "exists" => operator = "ImportZippedPackage" /\ ~Ended

\* C11 witness: import_file raised inside the with block, after segments
\* were created, and the directory is gone
C11_Witness ==
    /\ pc = "raised"
    /\ exc = <<"TypeError">>
    /\ operator = "ImportZippedPackage"
    /\ bones # <<>>
    /\ target = "removed"

\* execute of ImportZippedPackage has ended on an archive that was read and
\* holds no description
NoSDFFound ==
    /\ Ended
    /\ operator = "ImportZippedPackage"
    /\ file_path = ""
    /\ exc # <<"BadZipFile">>

\* what execute returns after an import that succeeded
SuccessResults == {<<"FINISHED">>, <<"None">>}

\* C12: when the archive holds no .sdf file nothing is imported (parse is
\* never called, no model, segment or object exists), the error is reported,
\* and execute ends with an exception or with a result an import that
\* succeeded does not give.
C12_NoSDFFatal ==
    NoSDFFound =>
        /\ calls = <<>> /\ bones = <<>> /\ objects = <<>> /\ trace = <<>>
        /\ "No SDF file found in package" \in Range(reports)
        /\ exc # <<>> \/ result \notin SuccessResults

LinkPose(n) == IF nodes[n].link.pose = <<>> THEN ZeroPose ELSE nodes[n].link.pose[1]

\* C13: every call of parse on a root has the reference pose [0,0,0,0,0,0],
\* and every call on another node has the pose of its parent's link, zero
\* when that link has none; so siblings get the same reference pose and the
\* reference pose of the parent itself is not handed on.
C13_ReferencePose ==
    \A k \in 1..Len(calls) :
        LET n == calls[k].node
        IN  calls[k].ref_pose = IF IsRoot(n) THEN ZeroPose ELSE LinkPose(parentOf[n])

\* C13 witness: a chain of three links with different poses, the third
\* parsed with the pose of the second
C13_Witness ==
    \E k \in 1..Len(calls) :
        LET n == calls[k].node
        IN  /\ ~IsRoot(n) /\ ~IsRoot(parentOf[n])
            /\ LinkPose(parentOf[n]) # LinkPose(parentOf[parentOf[n]])
            /\ LinkPose(parentOf[n]) # ZeroPose
            /\ calls[k].ref_pose = LinkPose(parentOf[n])

PlaceEvents == SelectSeq(trace, LAMBDA e : e.op = "place")

\* C14: every object parse places, names and attaches for a geometry
\* instance was created by the resolver call of that instance, and no object
\* is placed twice.
C14_OnlyNewObjectsPlaced ==
    /\ \A k \in 1..Len(PlaceEvents) :
          LET e == PlaceEvents[k]
          IN  /\ objects[e.obj].node = e.node
              /\ objects[e.obj].model_type = e.model_type
              /\ objects[e.obj].nr = e.nr
    /\ \A j, k \in 1..Len(PlaceEvents) : j # k => PlaceEvents[j].obj # PlaceEvents[k].obj

\* the geometry loop is at an element without geometry, or with a geometry
\* that is no mesh, cylinder, box or sphere
AtSkippedGeometry ==
    /\ AtGeometry
    /\ \/ CurrentModel.geometry = <<>>
       \/ CurrentModel.geometry # <<>> /\ CurrentModel.geometry[1] = NoGeometry

\* C15: a geometry element without geometry or of an unknown kind is logged
\* as an error and skipped: no object is created, changed or attached, nothing
\* is raised, and the loop goes on to the next element or to the children.
C15_SkippedGeometryLogged ==
    [][AtSkippedGeometry =>
          /\ Len(errors') = Len(errors) + 1
          /\ objects' = objects
          /\ exc' = <<>>
          /\ pc' = "parse"
          /\ stack'[Len(stack')].pc \in {"geometry", "children"}
          /\ <<stack'[Len(stack')].model_type, stack'[Len(stack')].nr>>
                # <<Top.model_type, Top.nr>>]_vars

UpdateEvents == SelectSeq(trace, LAMBDA e : e.op = "update")

ConfigEvents == SelectSeq(trace, LAMBDA e : e.op = "import_config")

\* C16, step part: import_config is called when import_file has walked and
\* updated every chain; when model.config cannot be read the exception leaves
\* execute without a result and the segments and objects stay as they were.
C16_StepPart ==
    Len(ConfigEvents') > Len(ConfigEvents) =>
        /\ Len(UpdateEvents) = Len(kinematic_chains)
        /\ Len(bones) = NumNodes
        /\ exc = <<>>
        /\ exc' # <<>> =>
              /\ exc' = <<"FileNotFoundError">>
              /\ pc' = "raised"
              /\ result' = <<>>
              /\ bones' = bones
              /\ objects' = objects

\* C16, state part: import_config is called at most once, and only by an
\* operator whose import_file has returned.
C16_StatePart ==
    /\ Len(ConfigEvents) <= 1
    /\ ConfigEvents # <<>> => Ended /\ Len(bones) = NumNodes

\* C16: in both operators import_config runs after import_file has completed,
\* a model.config that cannot be read raises out of execute, and the segments
\* and objects import_file created are left unchanged.
C16_ConfigAfterImport == [](C16_StatePart) /\ [][C16_StepPart]_vars

\* C16 witness: ImportPlain left by the exception of import_config with the
\* segments and a mesh of the description in the scene
C16_Witness ==
    /\ pc = "raised"
    /\ exc = <<"FileNotFoundError">>
    /\ operator = "ImportPlain"
    /\ NumNodes >= 2 /\ Len(bones) = NumNodes
    /\ \E o \in 1..Len(objects) : objects[o].type = "MESH" /\ objects[o].bone # <<>>

\* the segment created for node n
BoneOf(n) == CHOOSE i \in 1..Len(bones) : bones[i].node = n

\* C17, state part: the parent of the segment of every node is the segment
\* of its parent node, none for a root, and the properties of every segment
\* are those of its own node's joint.
C17_StatePart ==
    \A i \in 1..Len(bones) :
        LET n == bones[i].node
            joint == nodes[n].joint
        IN  /\ bones[i].parent = IF IsRoot(n) THEN <<>> ELSE bones[BoneOf(parentOf[n])].name
            /\ bones[i].jointMode # <<>> /\ bones[i].Euler # <<>>
            /\ ~IsRoot(n) =>
                  /\ bones[i].axis = ClaimedAxis(joint.axis)
                  /\ joint.type = "revolute" => bones[i].jointMode = <<"REVOLUTE">>
                  /\ joint.type = "prismatic" => bones[i].jointMode = <<"PRISMATIC">>
                  /\ joint.type = "fixed" => bones[i].jointMode = <<"FIXED">>

\* C17, step part: no step changes a segment that exists.
C17_StepPart == \A i \in 1..Len(bones) : Len(bones') >= i /\ bones'[i] = bones[i]

\* C17: the segment hierarchy mirrors the kinematic tree, wherever the
\* inertial data, the geometry loop or an earlier sibling's sub tree left the
\* active bone, and the properties are written to the new segment only.
C17_HierarchyMirrorsTree == [](C17_StatePart) /\ [][C17_StepPart]_vars

\* C17 witness: the second child of a root, created below the root's segment
\* after the sub tree of the first child, which has inertial data and
\* geometry, left the active bone there
C17_Witness ==
    /\ NumNodes = 3
    /\ parentOf = <<0, 1, 1>>
    /\ Len(bones) = 3
    /\ nodes[2].link.inertial # <<>>
    /\ \E o \in 1..Len(objects) : objects[o].type = "MESH" /\ objects[o].bone = bones[2].name
    /\ bones[3].node = 3
    /\ bones[3].parent = bones[1].name

\* C18: for a non-root node whose joint axis has dynamics the velocity of
\* its limit element is the segment's maximum velocity (nothing is written
\* when there is no limit element to copy from); for a root and for a joint
\* without dynamics the maximum velocity is not written.
C18_VelocityLimit ==
    \A i \in 1..Len(bones) :
        LET n == bones[i].node
            joint == nodes[n].joint
        IN  /\ ~IsRoot(n) /\ joint.dynamics /\ joint.limit # <<>> =>
                  bones[i].maxVelocity = <<joint.limit[1].velocity>>
            /\ ~IsRoot(n) /\ joint.dynamics /\ joint.limit = <<>> => bones[i].maxVelocity = <<>>
            /\ IsRoot(n) \/ ~joint.dynamics => bones[i].maxVelocity = <<>>

\* C18 witness: a non-root segment with the velocity limit 3 of its joint,
\* beside the root's segment of the same joint data without one
C18_Witness ==
    \E i, j \in 1..Len(bones) :
        /\ ~IsRoot(bones[i].node) /\ IsRoot(bones[j].node)
        /\ nodes[bones[i].node].joint.dynamics
        /\ bones[i].maxVelocity = <<3>>
        /\ bones[j].maxVelocity = <<>>

\* the nodes of the first k chains
RECURSIVE SubTree(_)
SubTree(n) == {n} \cup UNION {SubTree(children(n)[i]) : i \in 1..Len(children(n))}

ChainNodes(k) == UNION {SubTree(kinematic_chains[j]) : j \in 1..k}

\* the nodes with an event of kind op among the first p events of the trace
NodesBefore(op, p) == {trace[q].node : q \in {r \in 1..(p - 1) : trace[r].op = op}}

\* C19: the k-th call of UpdateSegments is on the segment of the root of the
\* k-th chain; when it runs, the segments created and the calls of parse that
\* returned are those of the nodes of the first k chains, so it follows all
\* of the chain and precedes the next chain; and when import_file has walked
\* the chains there was one call for every chain.
C19_UpdateOncePerChain ==
    /\ Len(UpdateEvents) <= Len(kinematic_chains)
    /\ pc = "done" \/ (pc = "finished" /\ file_path # "") =>
          Len(UpdateEvents) = Len(kinematic_chains)
    /\ \A p \in 1..Len(trace) :
          trace[p].op = "update" =>
              LET k == Cardinality({q \in 1..p : trace[q].op = "update"})
              IN  /\ bones[trace[p].node].node = kinematic_chains[k]
                  /\ NodesBefore("bone", p) = ChainNodes(k)
                  /\ NodesBefore("return", p) = ChainNodes(k)
                  /\ \A g \in 1..Len(trace) :
                        /\ trace[g].op \in {"create", "place", "physical"}
                        /\ trace[g].node \in ChainNodes(k) \ ChainNodes(k - 1)
                        => g < p

\* C19 witness: two chains, the first with a child and geometry, both updated
C19_Witness ==
    /\ pc = "done"
    /\ Len(kinematic_chains) = 2
    /\ Len(children(kinematic_chains[1])) = 1
    /\ Len(UpdateEvents) = 2
    /\ \E g \in 1..Len(trace) : trace[g].op = "place" /\ trace[g].node = 2

====
